---- MODULE Spec2Model ----
(***************************************************************************)
(* Model of dhs_checker.check_ids (src/dhs_checker.py): one batch logs     *)
(* into the Debt Help System with a headless browser and looks up each ID  *)
(* number in turn.  Every await of the coroutine is one action, so that    *)
(* several batches interleave exactly where asyncio lets them.  The        *)
(* Playwright calls are the environment: each may return or raise, and the *)
(* portal decides whether the login is accepted and whether a search shows *)
(* a result row.                                                           *)
(***************************************************************************)
EXTENDS Naturals, Sequences, FiniteSets

(***************************************************************************)
(* Bounds of the model.                                                    *)
(***************************************************************************)
MaxIds == 2          \* longest ids list of a single batch
MaxTextLen == 2      \* longest text the portal renders in a cell
MaxConcIds == 1      \* longest ids list of each of two concurrent batches
MaxRows == 2         \* most data rows of an uploaded CSV file

Batches == {1}
ConcBatches == {1, 2}

(***************************************************************************)
(* Python values.  A str is the sequence of its characters; an             *)
(* Optional[str] is a record, so that None and "" stay different.  The     *)
(* third kind, "raise", is the outcome of a call that raised.              *)
(***************************************************************************)
Chars == {" ", "a"}

NoneV == [kind |-> "none", text |-> << >>]

Str(t) == [kind |-> "str", text |-> t]

RaiseV == [kind |-> "raise", text |-> << >>]

StringsUpTo(S, n) == UNION {[1..k -> S] : k \in 0..n}

AllTexts == StringsUpTo(Chars, MaxTextLen)

ConcTexts == {<<"a">>}

Id1 == <<"1">>

Id2 == <<"2">>

Ids == {Id1, Id2}

IdOf(b) == IF b = 1 THEN Id1 ELSE Id2

\* the values an environment variable can have: unset, empty, set
EnvValues == {NoneV, Str(<< >>), Str(<<"u">>)}

isspace(c) == c = " "

RECURSIVE lstrip(_)
lstrip(s) == IF s # << >> /\ isspace(Head(s)) THEN lstrip(Tail(s)) ELSE s

RECURSIVE rstrip(_)
rstrip(s) ==
    IF s # << >> /\ isspace(s[Len(s)])
    THEN rstrip(SubSeq(s, 1, Len(s) - 1))
    ELSE s

\* str.strip()
strip(s) == rstrip(lstrip(s))

\* Python truthiness of an Optional[str]: None and "" are falsy
truthy(v) == v.kind = "str" /\ v.text # << >>

VARIABLES
    username, password,      \* os.environ: DHS_USERNAME, DHS_PASSWORD
    portalTexts,             \* the texts the portal can render in a result cell
    nextBrowser,             \* browsers launched so far, over all batches
    pages,                   \* page handle -> state of that page
    pc,                      \* batch -> the await the coroutine is at
    ids,                     \* batch -> argument of check_ids
    it,                      \* batch -> items the for loop has taken
    id_number,               \* batch -> loop variable / _search_id argument
    status,                  \* batch -> local of _search_id
    results,                 \* batch -> local of check_ids
    exc,                     \* batch -> exception in flight, and the await that raised it
    browser, context, page,  \* batch -> handles of check_ids
    mock,                    \* batch -> calls counted by a tracking double
    lookups,                 \* batch -> the ids typed into the search control
    obs,                     \* batch -> what the portal did in the latest lookup
    request,                 \* batch -> who calls check_ids: an endpoint, with what
    response                 \* batch -> how far the endpoint is, and its answer

env == <<username, password, portalTexts>>

handles == <<browser, context, page>>

locals == <<ids, it, id_number, status, results>>

web == <<request, response>>

vars == <<username, password, portalTexts, nextBrowser, pages, pc, ids, it,
          id_number, status, results, exc, browser, context, page, mock,
          lookups, obs, request, response>>

Running == DOMAIN pc

NoHandle == << >>

\* a page: whether the login form was submitted on it and accepted, whether it
\* shows a result row, what the search control holds, who called it, and
\* whether what the portal last served keeps polling, so that the network
\* never goes idle
BlankPage ==
    [submitted |-> FALSE, authed |-> FALSE, hasRow |-> FALSE, filter |-> NoneV,
     users |-> {}, polling |-> FALSE]

NoExc == [type |-> "none", at |-> "none"]

NoObs == [n |-> 0, row |-> "pending", status |-> "pending", counsellor |-> "pending"]

NoCalls ==
    [pw_starts |-> 0, pw_stops |-> 0, launches |-> 0, logins |-> 0,
     ctx_closes |-> 0, br_closes |-> 0]

SearchPcs == {"fill", "click", "wait", "status", "counsellor"}

\* check_ids called as a coroutine, not through an endpoint
DirectCall ==
    [endpoint |-> "direct", upload |-> "none", header |-> "none", rows |-> << >>,
     id_number |-> << >>]

\* the value of the ID column in a data row: None (the row is too short to
\* have it) or the text of the cell
CsvCells == {NoneV, Str(<< >>), Str(<<" ">>), Str(<<"1">>), Str(<<" ", "2">>)}

\* what the reader gives for a data row: the value of the ID column, or
\* csv.Error raised while the row is parsed (a field over the size limit)
CsvRows == CsvCells \cup {RaiseV}

\* the upload of /check_ids/: a file whose read() raises, bytes that are not
\* UTF-8, or a text; the text has no header row at all, a header row that
\* raises csv.Error, a header without an "ID Number" column, or one with it
\* and up to MaxRows data rows
CsvRequests ==
    {[endpoint |-> "check_ids", upload |-> u, header |-> "none", rows |-> << >>,
      id_number |-> << >>] : u \in {"read_error", "not_utf8"}}
    \cup {[endpoint |-> "check_ids", upload |-> "text", header |-> h, rows |-> << >>,
            id_number |-> << >>] : h \in {"none", "csv_error", "other"}}
    \cup {[endpoint |-> "check_ids", upload |-> "text", header |-> "id number",
            rows |-> r, id_number |-> << >>] : r \in StringsUpTo(CsvRows, MaxRows)}

\* the id_number of /check_id/ and /check_id_get/: any str
SingleRequests ==
    {[endpoint |-> e, upload |-> "none", header |-> "none", rows |-> << >>,
      id_number |-> x] :
        e \in {"check_id", "check_id_get"}, x \in Ids \cup {<<" ", "1">>}}

NoResponse == [stage |-> "received", status |-> 0, detail |-> "", body |-> << >>]

InitWith(B, texts, inputs, requests) ==
    /\ request \in [B -> requests]
    /\ response =
          [b \in B |->
              [NoResponse EXCEPT !.stage =
                  IF request[b].endpoint = "direct" THEN "calling" ELSE "received"]]
    /\ username \in EnvValues
    /\ password \in EnvValues
    /\ portalTexts = texts
    /\ nextBrowser = 0
    /\ pages = [h \in {} |-> BlankPage]
    /\ pc = [b \in B |-> "idle"]
    /\ ids \in {f \in [B -> UNION {inputs[b] : b \in B}] : \A b \in B : f[b] \in inputs[b]}
    /\ it = [b \in B |-> 0]
    /\ id_number = [b \in B |-> << >>]
    /\ status = [b \in B |-> NoneV]
    /\ results = [b \in B |-> << >>]
    /\ exc = [b \in B |-> NoExc]
    /\ browser = [b \in B |-> 0]
    /\ context = [b \in B |-> NoHandle]
    /\ page = [b \in B |-> NoHandle]
    /\ mock = [b \in B |-> NoCalls]
    /\ lookups = [b \in B |-> << >>]
    /\ obs = [b \in B |-> NoObs]

\* a single request: any list of up to MaxIds ID numbers
Init ==
    InitWith(Batches, AllTexts, [b \in Batches |-> StringsUpTo(Ids, MaxIds)], {DirectCall})

\* two concurrent requests, each about its own ID number
InitConc ==
    InitWith(ConcBatches, ConcTexts,
             [b \in ConcBatches |-> StringsUpTo({IdOf(b)}, MaxConcIds)], {DirectCall})

(***************************************************************************)
(* Helpers of the actions.                                                 *)
(***************************************************************************)
\* a Playwright call raised inside the "async with" block: the block is left
\* through __aexit__ with the exception in flight
Raise(b) ==
    /\ pc' = [pc EXCEPT ![b] = "aexit"]
    /\ exc' = [exc EXCEPT ![b] = [type |-> "Error", at |-> pc[b]]]

Goto(b, where) ==
    /\ pc' = [pc EXCEPT ![b] = where]
    /\ exc' = exc

Count(b, what) == mock' = [mock EXCEPT ![b][what] = @ + 1]

\* batch b calls a method of its page
Touch(pg, b) == [pg EXCEPT !.users = @ \cup {b}]

\* a slip: only the username is tested
creds_missing_username_only(u, p) == ~truthy(u)

\* "if not username or not password"
creds_missing(u, p) == ~truthy(u) \/ ~truthy(p)

\* a slip: the list is walked from its end
iter_item_reversed(seq, k) == seq[Len(seq) + 1 - k]

\* the item the for loop takes in its k-th iteration
iter_item(seq, k) == seq[k]

\* "for id_number in ids": take the next item, or leave the loop for the
\* statement after it
for_next(b) ==
    IF it[b] < Len(ids[b])
    THEN /\ it' = [it EXCEPT ![b] = @ + 1]
         /\ id_number' = [id_number EXCEPT ![b] = iter_item(ids[b], it[b] + 1)]
         /\ Goto(b, "fill")
    ELSE /\ it' = it
         /\ id_number' = id_number
         /\ Goto(b, "context_close")

\* a slip: the handler stores "" where the code stores None
try_text_content_empty(res) == IF res.kind = "raise" THEN Str(<< >>) ELSE res

\* try: x = await page.text_content(sel)  except Exception: x = None
try_text_content(res) == IF res.kind = "raise" THEN NoneV ELSE res

\* "x.strip() if isinstance(x, str) else None"
strip_or_none(v) == IF v.kind = "str" THEN Str(strip(v.text)) ELSE NoneV

\* a slip: one missing field blanks the other
make_result_all_or_nothing(id, st, dc) ==
    IF st.kind = "str" /\ dc.kind = "str"
    THEN [id_number |-> id, status |-> strip_or_none(st),
          debt_counsellor |-> strip_or_none(dc)]
    ELSE [id_number |-> id, status |-> NoneV, debt_counsellor |-> NoneV]

\* the dict _search_id returns
make_result(id, st, dc) ==
    [id_number |-> id, status |-> strip_or_none(st), debt_counsellor |-> strip_or_none(dc)]

\* a slip: a result without any field is not kept
append_result_found_only(rs, r) ==
    IF r.status.kind = "none" /\ r.debt_counsellor.kind = "none" THEN rs ELSE Append(rs, r)

\* a slip: results.insert(0, result)
append_result_front(rs, r) == <<r>> \o rs

\* results.append(result)
append_result(rs, r) == Append(rs, r)

\* what page.text_content can do: without a result row the selector never
\* matches and the call times out; with one it returns the cell's text (or
\* None), or fails all the same
TextContentOutcomes(pg) ==
    IF pg.hasRow
    THEN {RaiseV, NoneV} \cup {Str(t) : t \in portalTexts}
    ELSE {RaiseV}

\* a slip: the wait is given timeout=0, which turns the timeout off: on a page
\* that keeps polling the call never comes back
WaitOutcomes_no_timeout(pg) == IF pg.polling THEN {} ELSE BOOLEAN

\* what page.wait_for_load_state("networkidle") can do (TRUE: it returns): on
\* a page that keeps polling the network never goes idle and the call ends
\* with Playwright's TimeoutError; otherwise it returns, or fails all the same
WaitOutcomes(pg) == IF pg.polling THEN {FALSE} ELSE BOOLEAN

(***************************************************************************)
(* check_ids, one action per await.                                        *)
(***************************************************************************)
check_ids_enter(b) ==
    /\ pc[b] = "idle"
    /\ response[b].stage = "calling"
    /\ IF creds_missing(username, password)
       THEN /\ pc' = [pc EXCEPT ![b] = "done"]
            /\ exc' = [exc EXCEPT ![b] = [type |-> "RuntimeError", at |-> "idle"]]
       ELSE Goto(b, "pw_start")
    /\ results' = [results EXCEPT ![b] = << >>]
    /\ UNCHANGED <<web, env, nextBrowser, pages, ids, it, id_number, status, handles,
                   mock, lookups, obs>>

\* async with async_playwright() as playwright: __aenter__
playwright_start(b) ==
    /\ pc[b] = "pw_start"
    /\ \E ok \in BOOLEAN :
          IF ok
          THEN Goto(b, "launch") /\ Count(b, "pw_starts")
          ELSE /\ pc' = [pc EXCEPT ![b] = "done"]
               /\ exc' = [exc EXCEPT ![b] = [type |-> "Error", at |-> "pw_start"]]
               /\ mock' = mock
    /\ UNCHANGED <<web, env, nextBrowser, pages, locals, handles, lookups, obs>>

chromium_launch(b) ==
    /\ pc[b] = "launch"
    /\ \E ok \in BOOLEAN :
          IF ok
          THEN /\ Goto(b, "new_context")
               /\ nextBrowser' = nextBrowser + 1
               /\ browser' = [browser EXCEPT ![b] = nextBrowser + 1]
               /\ Count(b, "launches")
          ELSE Raise(b) /\ UNCHANGED <<nextBrowser, browser, mock>>
    /\ UNCHANGED <<web, env, pages, locals, context, page, lookups, obs>>

new_context(b) ==
    /\ pc[b] = "new_context"
    /\ \E ok \in BOOLEAN :
          IF ok
          THEN /\ Goto(b, "new_page")
               /\ context' = [context EXCEPT ![b] = <<browser[b], 1>>]
          ELSE Raise(b) /\ context' = context
    /\ UNCHANGED <<web, env, nextBrowser, pages, locals, browser, page, mock, lookups, obs>>

\* a slip: one page kept at module level serves every call
page_handle_shared(ctx) == <<1, 1, 1>>

\* the handle of the page context.new_page() makes: a new page of that context
page_handle(ctx) == Append(ctx, 1)

\* a slip: the call of _login is left out and the loop starts on the new page
new_page_no_login(b) ==
    /\ pc[b] = "new_page"
    /\ \E ok \in BOOLEAN :
          IF ok
          THEN LET h == page_handle(context[b]) IN
               /\ for_next(b)
               /\ page' = [page EXCEPT ![b] = h]
               /\ pages' = [x \in DOMAIN pages \cup {h} |->
                               IF x \in DOMAIN pages
                               THEN pages[x]
                               ELSE [BlankPage EXCEPT !.authed = TRUE]]
          ELSE Raise(b) /\ UNCHANGED <<page, pages, it, id_number>>
    /\ UNCHANGED <<web, env, nextBrowser, ids, status, results, browser, context, mock,
                   lookups, obs>>

new_page(b) ==
    /\ pc[b] = "new_page"
    /\ \E ok \in BOOLEAN :
          IF ok
          THEN LET h == page_handle(context[b]) IN
               /\ Goto(b, "goto")
               /\ page' = [page EXCEPT ![b] = h]
               /\ pages' = [x \in DOMAIN pages \cup {h} |->
                               IF x \in DOMAIN pages THEN pages[x] ELSE BlankPage]
          ELSE Raise(b) /\ UNCHANGED <<page, pages>>
    /\ UNCHANGED <<web, env, nextBrowser, locals, browser, context, mock, lookups, obs>>

(***************************************************************************)
(* _login: goto, fill, fill, click, wait.  The portal accepts or rejects   *)
(* the credentials when the login button is clicked; either way the page   *)
(* it answers with loads and the network goes idle.                        *)
(***************************************************************************)
login_goto(b) ==
    /\ pc[b] = "goto"
    /\ Count(b, "logins")
    /\ pages' = [pages EXCEPT ![page[b]] = Touch(@, b)]
    /\ \E ok \in BOOLEAN : IF ok THEN Goto(b, "fill_username") ELSE Raise(b)
    /\ UNCHANGED <<web, env, nextBrowser, locals, handles, lookups, obs>>

login_fill_username(b) ==
    /\ pc[b] = "fill_username"
    /\ pages' = [pages EXCEPT ![page[b]] = Touch(@, b)]
    /\ \E ok \in BOOLEAN : IF ok THEN Goto(b, "fill_password") ELSE Raise(b)
    /\ UNCHANGED <<web, env, nextBrowser, locals, handles, mock, lookups, obs>>

login_fill_password(b) ==
    /\ pc[b] = "fill_password"
    /\ pages' = [pages EXCEPT ![page[b]] = Touch(@, b)]
    /\ \E ok \in BOOLEAN : IF ok THEN Goto(b, "click_login") ELSE Raise(b)
    /\ UNCHANGED <<web, env, nextBrowser, locals, handles, mock, lookups, obs>>

login_click(b) ==
    /\ pc[b] = "click_login"
    /\ \E ok \in BOOLEAN :
          IF ok
          THEN /\ Goto(b, "wait_login")
               /\ \E accepted, poll \in BOOLEAN :
                     pages' = [pages EXCEPT ![page[b]] =
                                  [Touch(@, b) EXCEPT !.submitted = TRUE,
                                                      !.authed = accepted,
                                                      !.polling = poll]]
          ELSE /\ Raise(b)
               /\ pages' = [pages EXCEPT ![page[b]] = Touch(@, b)]
    /\ UNCHANGED <<web, env, nextBrowser, locals, handles, mock, lookups, obs>>

\* await page.wait_for_load_state("networkidle"), then _login returns and the
\* for loop starts
login_wait(b) ==
    /\ pc[b] = "wait_login"
    /\ pages' = [pages EXCEPT ![page[b]] = Touch(@, b)]
    /\ \E ok \in WaitOutcomes(pages[page[b]]) :
          IF ok THEN for_next(b) ELSE Raise(b) /\ UNCHANGED <<it, id_number>>
    /\ UNCHANGED <<web, env, nextBrowser, ids, status, results, handles, mock, lookups, obs>>

(***************************************************************************)
(* _search_id: fill, click, wait, text_content, text_content.  A page that *)
(* is not logged in has no search control, so filling it times out.        *)
(***************************************************************************)
search_fill(b) ==
    /\ pc[b] = "fill"
    /\ lookups' = [lookups EXCEPT ![b] = Append(@, id_number[b])]
    /\ obs' = [obs EXCEPT ![b] = [NoObs EXCEPT !.n = it[b]]]
    /\ \E ok \in IF pages[page[b]].authed THEN BOOLEAN ELSE {FALSE} :
          IF ok
          THEN /\ Goto(b, "click")
               /\ pages' = [pages EXCEPT ![page[b]] =
                               [Touch(@, b) EXCEPT !.filter = Str(id_number[b])]]
          ELSE /\ Raise(b)
               /\ pages' = [pages EXCEPT ![page[b]] = Touch(@, b)]
    /\ UNCHANGED <<web, env, nextBrowser, locals, handles, mock>>

\* the portal answers the search with a result row or with none
search_click(b) ==
    /\ pc[b] = "click"
    /\ \E ok \in BOOLEAN :
          IF ok
          THEN /\ Goto(b, "wait")
               /\ \E row, poll \in BOOLEAN :
                     pages' = [pages EXCEPT ![page[b]] =
                                  [Touch(@, b) EXCEPT !.hasRow = row, !.polling = poll]]
          ELSE /\ Raise(b)
               /\ pages' = [pages EXCEPT ![page[b]] = Touch(@, b)]
    /\ UNCHANGED <<web, env, nextBrowser, locals, handles, mock, lookups, obs>>

search_wait(b) ==
    /\ pc[b] = "wait"
    /\ pages' = [pages EXCEPT ![page[b]] = Touch(@, b)]
    /\ \E ok \in WaitOutcomes(pages[page[b]]) :
          IF ok
          THEN /\ Goto(b, "status")
               /\ obs' = [obs EXCEPT ![b].row =
                             IF pages[page[b]].hasRow THEN "shown" ELSE "absent"]
          ELSE Raise(b) /\ obs' = obs
    /\ UNCHANGED <<web, env, nextBrowser, locals, handles, mock, lookups>>

\* a slip: the first extraction without its try/except
search_status_uncaught(b) ==
    /\ pc[b] = "status"
    /\ pages' = [pages EXCEPT ![page[b]] = Touch(@, b)]
    /\ \E res \in TextContentOutcomes(pages[page[b]]) :
          IF res.kind = "raise"
          THEN Raise(b) /\ UNCHANGED <<status, obs>>
          ELSE /\ status' = [status EXCEPT ![b] = res]
               /\ obs' = [obs EXCEPT ![b].status = res.kind]
               /\ Goto(b, "counsellor")
    /\ UNCHANGED <<web, env, nextBrowser, ids, it, id_number, results, handles, mock, lookups>>

search_status(b) ==
    /\ pc[b] = "status"
    /\ pages' = [pages EXCEPT ![page[b]] = Touch(@, b)]
    /\ \E res \in TextContentOutcomes(pages[page[b]]) :
          /\ status' = [status EXCEPT ![b] = try_text_content(res)]
          /\ obs' = [obs EXCEPT ![b].status = res.kind]
    /\ Goto(b, "counsellor")
    /\ UNCHANGED <<web, env, nextBrowser, ids, it, id_number, results, handles, mock, lookups>>

\* the second extraction, the return of _search_id, results.append and the
\* next turn of the for loop: no await in between
search_counsellor(b) ==
    /\ pc[b] = "counsellor"
    /\ pages' = [pages EXCEPT ![page[b]] = Touch(@, b)]
    /\ \E res \in TextContentOutcomes(pages[page[b]]) :
          LET debt_counsellor == try_text_content(res)
              result == make_result(id_number[b], status[b], debt_counsellor)
          IN /\ results' = [results EXCEPT ![b] = append_result(@, result)]
             /\ obs' = [obs EXCEPT ![b].counsellor = res.kind]
    /\ status' = [status EXCEPT ![b] = NoneV]
    /\ for_next(b)
    /\ UNCHANGED <<web, env, nextBrowser, ids, handles, mock, lookups>>

(***************************************************************************)
(* The end of check_ids.                                                   *)
(***************************************************************************)
\* a slip: the context is closed only when something was collected
context_close_if_results(b) ==
    /\ pc[b] = "context_close"
    /\ IF results[b] # << >>
       THEN /\ Count(b, "ctx_closes")
            /\ \E ok \in BOOLEAN : IF ok THEN Goto(b, "browser_close") ELSE Raise(b)
       ELSE Goto(b, "browser_close") /\ mock' = mock
    /\ UNCHANGED <<web, env, nextBrowser, pages, locals, handles, lookups, obs>>

context_close(b) ==
    /\ pc[b] = "context_close"
    /\ Count(b, "ctx_closes")
    /\ \E ok \in BOOLEAN : IF ok THEN Goto(b, "browser_close") ELSE Raise(b)
    /\ UNCHANGED <<web, env, nextBrowser, pages, locals, handles, lookups, obs>>

browser_close(b) ==
    /\ pc[b] = "browser_close"
    /\ Count(b, "br_closes")
    /\ \E ok \in BOOLEAN : IF ok THEN Goto(b, "aexit") ELSE Raise(b)
    /\ UNCHANGED <<web, env, nextBrowser, pages, locals, handles, lookups, obs>>

\* __aexit__ of async_playwright(): stops the driver; then "return results",
\* or the exception in flight goes on to the caller
playwright_exit(b) ==
    /\ pc[b] = "aexit"
    /\ Count(b, "pw_stops")
    /\ Goto(b, "done")
    /\ UNCHANGED <<web, env, nextBrowser, pages, locals, handles, lookups, obs>>

Next ==
    \/ \E b \in Running : check_ids_enter(b)
    \/ \E b \in Running : playwright_start(b)
    \/ \E b \in Running : chromium_launch(b)
    \/ \E b \in Running : new_context(b)
    \/ \E b \in Running : new_page(b)
    \/ \E b \in Running : login_goto(b)
    \/ \E b \in Running : login_fill_username(b)
    \/ \E b \in Running : login_fill_password(b)
    \/ \E b \in Running : login_click(b)
    \/ \E b \in Running : login_wait(b)
    \/ \E b \in Running : search_fill(b)
    \/ \E b \in Running : search_click(b)
    \/ \E b \in Running : search_wait(b)
    \/ \E b \in Running : search_status(b)
    \/ \E b \in Running : search_counsellor(b)
    \/ \E b \in Running : context_close(b)
    \/ \E b \in Running : browser_close(b)
    \/ \E b \in Running : playwright_exit(b)

Spec == Init /\ [][Next]_vars

SpecConc == InitConc /\ [][Next]_vars

\* a single request over a portal that renders one text; the event loop
\* resumes a coroutine whose awaited call has come back
InitLive ==
    InitWith(Batches, ConcTexts, [b \in Batches |-> StringsUpTo(Ids, MaxIds)], {DirectCall})

SpecLive == InitLive /\ [][Next]_vars /\ WF_vars(Next)

\* check_ids has returned its results / has raised
Returned(b) == pc[b] = "done" /\ exc[b].type = "none"

Raised(b) == pc[b] = "done" /\ exc[b].type # "none"

(***************************************************************************)
(* main.py: the endpoints.  Each reads its request, awaits                 *)
(* dhs_checker.check_ids and answers when that call has ended.             *)
(***************************************************************************)
\* the loop over the rows: "if value: id_numbers.append(value.strip())"
csv_ids(rows) ==
    LET kept == SelectSeq(rows, truthy)
    IN [i \in 1..Len(kept) |-> strip(kept[i].text)]

Answer(b, st, dt, bd) ==
    response' = [response EXCEPT ![b] =
                    [stage |-> "sent", status |-> st, detail |-> dt, body |-> bd]]

CallCheckIds(b, args) ==
    /\ ids' = [ids EXCEPT ![b] = args]
    /\ response' = [response EXCEPT ![b].stage = "calling"]

\* /check_ids/ at "contents = await file.read()": the endpoint is suspended
\* until the read returns or raises; any exception of the read is a 400
csv_read(b) ==
    /\ request[b].endpoint = "check_ids"
    /\ response[b].stage = "received"
    /\ IF request[b].upload = "read_error"
       THEN Answer(b, 400, "Failed to read uploaded file: {exc}", << >>)
       ELSE response' = [response EXCEPT ![b].stage = "read"]
    /\ UNCHANGED <<env, nextBrowser, pages, pc, locals, exc, handles, mock, lookups,
                   obs, request>>

\* csv.Error leaves the reader while a row is parsed
csv_raises(rows) == \E i \in 1..Len(rows) : rows[i] = RaiseV

\* /check_ids/ from the decoding of the contents up to
\* "await dhs_checker.check_ids(id_numbers)"; csv.Error is not caught and
\* becomes the framework's 500 before check_ids is called
csv_check_ids(b) ==
    /\ request[b].endpoint = "check_ids"
    /\ response[b].stage = "read"
    /\ IF request[b].upload = "not_utf8"
       THEN Answer(b, 400, "Unable to decode CSV file as UTF-8: {exc}", << >>)
            /\ ids' = ids
       ELSE IF request[b].header = "csv_error"
       THEN Answer(b, 500, "Internal Server Error", << >>) /\ ids' = ids
       ELSE IF request[b].header = "none"
       THEN Answer(b, 400, "CSV file appears to be empty or missing a header row.", << >>)
            /\ ids' = ids
       ELSE IF request[b].header # "id number"
       THEN Answer(b, 400, "CSV file must contain a column named 'ID Number'.", << >>)
            /\ ids' = ids
       ELSE IF csv_raises(request[b].rows)
       THEN Answer(b, 500, "Internal Server Error", << >>) /\ ids' = ids
       ELSE LET id_numbers == csv_ids(request[b].rows) IN
            IF id_numbers = << >>
            THEN Answer(b, 400, "No ID numbers found in the CSV file.", << >>)
                 /\ ids' = ids
            ELSE CallCheckIds(b, id_numbers)
    /\ UNCHANGED <<env, nextBrowser, pages, pc, it, id_number, status, results, exc,
                   handles, mock, lookups, obs, request>>

\* /check_ids/ after the call: the list is the answer; an exception is not
\* caught and becomes the framework's 500
csv_check_ids_respond(b) ==
    /\ request[b].endpoint = "check_ids"
    /\ response[b].stage = "calling"
    /\ pc[b] = "done"
    /\ IF exc[b].type # "none"
       THEN Answer(b, 500, "Internal Server Error", << >>)
       ELSE Answer(b, 200, "", results[b])
    /\ UNCHANGED <<env, nextBrowser, pages, pc, locals, exc, handles, mock, lookups,
                   obs, request>>

\* a slip: the id is stripped as the CSV endpoint strips it
single_args_stripped(x) == <<strip(x)>>

\* the argument of check_ids in /check_id/ and /check_id_get/: [id_number]
single_args(x) == <<x>>

\* the answer of /check_id/ and /check_id_get/: an exception is a 500 with
\* its text, an empty list a 404, otherwise results[0]
single_response(e, rs) ==
    IF e.type # "none"
    THEN [stage |-> "sent", status |-> 500, detail |-> e.type, body |-> << >>]
    ELSE IF rs = << >>
    THEN [stage |-> "sent", status |-> 404, detail |-> "ID not found", body |-> << >>]
    ELSE [stage |-> "sent", status |-> 200, detail |-> "", body |-> <<rs[1]>>]

check_id(b) ==
    /\ request[b].endpoint = "check_id"
    /\ response[b].stage = "received"
    /\ CallCheckIds(b, single_args(request[b].id_number))
    /\ UNCHANGED <<env, nextBrowser, pages, pc, it, id_number, status, results, exc,
                   handles, mock, lookups, obs, request>>

check_id_respond(b) ==
    /\ request[b].endpoint = "check_id"
    /\ response[b].stage = "calling"
    /\ pc[b] = "done"
    /\ response' = [response EXCEPT ![b] = single_response(exc[b], results[b])]
    /\ UNCHANGED <<env, nextBrowser, pages, pc, locals, exc, handles, mock, lookups,
                   obs, request>>

check_id_get(b) ==
    /\ request[b].endpoint = "check_id_get"
    /\ response[b].stage = "received"
    /\ CallCheckIds(b, single_args(request[b].id_number))
    /\ UNCHANGED <<env, nextBrowser, pages, pc, it, id_number, status, results, exc,
                   handles, mock, lookups, obs, request>>

check_id_get_respond(b) ==
    /\ request[b].endpoint = "check_id_get"
    /\ response[b].stage = "calling"
    /\ pc[b] = "done"
    /\ response' = [response EXCEPT ![b] = single_response(exc[b], results[b])]
    /\ UNCHANGED <<env, nextBrowser, pages, pc, locals, exc, handles, mock, lookups,
                   obs, request>>

NextHttp ==
    \/ Next
    \/ \E b \in Running : csv_read(b)
    \/ \E b \in Running : csv_check_ids(b)
    \/ \E b \in Running : csv_check_ids_respond(b)
    \/ \E b \in Running : check_id(b)
    \/ \E b \in Running : check_id_respond(b)
    \/ \E b \in Running : check_id_get(b)
    \/ \E b \in Running : check_id_get_respond(b)

\* a single request to any of the three endpoints, over a portal that renders
\* one text
InitHttp ==
    InitWith(Batches, ConcTexts, [b \in Batches |-> {<< >>}],
             CsvRequests \cup SingleRequests)

SpecHttp == InitHttp /\ [][NextHttp]_vars

Responded(b) == response[b].stage = "sent"

(***************************************************************************)
(* Vocabulary of the properties.                                           *)
(***************************************************************************)
Unset(v) == v = NoneV \/ v = Str(<< >>)

CredentialMissing == Unset(username) \/ Unset(password)

\* the session of b was opened: browser, context and page exist
SessionOpen(b) == page[b] # NoHandle

\* the login form was submitted and the portal did not accept it
LoginRejected(b) ==
    /\ SessionOpen(b)
    /\ pages[page[b]].submitted
    /\ ~pages[page[b]].authed

\* ... and _login returned all the same: the page loaded and went idle
RejectedLoginReturned(b) ==
    /\ LoginRejected(b)
    /\ pc[b] # "wait_login"
    /\ exc[b].at # "wait_login"

\* the latest lookup of b went through both extractions and returned
LookupComplete(b) == obs[b].n > 0 /\ obs[b].counsellor # "pending"

ExtractionSteps == {"status", "counsellor"}

InteractionSteps == {"fill", "click", "wait"}

Absent(v) == v = NoneV

\* a str that is not empty and has no whitespace at either end
Trimmed(v) ==
    /\ v.kind = "str"
    /\ v.text # << >>
    /\ v.text[1] # " "
    /\ v.text[Len(v.text)] # " "

(***************************************************************************)
(* C1: when check_ids returns, the list has one entry per input id, in     *)
(* input order, entry i carrying ids[i], duplicates included, whatever the *)
(* lookups found.                                                          *)
(***************************************************************************)
C1_ResultsMatchInput ==
    \A b \in Running :
        Returned(b) =>
            /\ Len(results[b]) = Len(ids[b])
            /\ \A i \in 1..Len(ids[b]) : results[b][i].id_number = ids[b][i]

\* a returned batch of a duplicated id, one lookup empty and one found
C1_Witness ==
    \E b \in Running :
        /\ Returned(b)
        /\ ids[b] = <<Id2, Id2>>
        /\ Absent(results[b][1].status) /\ Absent(results[b][1].debt_counsellor)
        /\ results[b][2].status.kind = "str"

(***************************************************************************)
(* C2: context.close() and browser.close() are each called exactly once in *)
(* every check_ids call that opened a session, however the call ends.      *)
(***************************************************************************)
C2_TeardownOnEveryExit ==
    \A b \in Running :
        (pc[b] = "done" /\ SessionOpen(b)) =>
            mock[b].ctx_closes = 1 /\ mock[b].br_closes = 1

(***************************************************************************)
(* C3: with DHS_USERNAME or DHS_PASSWORD unset or empty, check_ids raises  *)
(* the credentials error for any input and nothing of Playwright is        *)
(* started: no driver, no browser, no login, no lookup.                    *)
(***************************************************************************)
C3_MissingCredentialsFailFirst ==
    \A b \in Running :
        (CredentialMissing /\ pc[b] # "idle") =>
            /\ Raised(b)
            /\ exc[b].type = "RuntimeError"
            /\ mock[b] = NoCalls
            /\ browser[b] = 0 /\ context[b] = NoHandle /\ page[b] = NoHandle
            /\ lookups[b] = << >>
            /\ nextBrowser = 0 /\ DOMAIN pages = {}

\* the empty list with a username and an empty password
C3_Witness ==
    \E b \in Running :
        /\ ids[b] = << >>
        /\ username = Str(<<"u">>) /\ password = Str(<< >>)
        /\ Raised(b)

(***************************************************************************)
(* C4: when the portal does not accept the submitted login (the login     *)
(* page is shown again and loads normally), no identifier is looked up,    *)
(* the run ends with an authentication error and the session is torn down. *)
(***************************************************************************)
C4_RejectedLoginStopsRun ==
    \A b \in Running :
        RejectedLoginReturned(b) =>
            /\ lookups[b] = << >>
            /\ pc[b] = "done" =>
                  /\ exc[b].type = "AuthenticationError"
                  /\ mock[b].ctx_closes = 1 /\ mock[b].br_closes = 1

(***************************************************************************)
(* C5 as stated: no failure inside a lookup (fill, click, wait or an       *)
(* extraction) ends the batch: on a logged-in page every lookup that was   *)
(* started gets its Result and every identifier is looked up.              *)
(***************************************************************************)
C5_AnyLookupFailureContained ==
    \A b \in Running :
        (pc[b] = "done" /\ lookups[b] # << >> /\ ~LoginRejected(b)) =>
            /\ Len(results[b]) = Len(lookups[b])
            /\ Len(lookups[b]) = Len(ids[b])

(***************************************************************************)
(* C5 amended: a failure of an extraction never ends the batch: the field  *)
(* is absent in that identifier's Result and the loop goes on to the next  *)
(* identifier; a failure of fill, click or wait raises out of check_ids    *)
(* with no Result for that identifier and no later lookup.                 *)
(***************************************************************************)
C5_ExtractionFailureContained ==
    \A b \in Running :
        /\ exc[b].at \notin ExtractionSteps
        /\ LookupComplete(b) =>
              /\ Len(results[b]) >= obs[b].n
              /\ obs[b].status = "raise" => Absent(results[b][obs[b].n].status)
              /\ obs[b].counsellor = "raise" =>
                    Absent(results[b][obs[b].n].debt_counsellor)
              /\ IF obs[b].n < Len(ids[b])
                 THEN pc[b] = "fill" /\ it[b] = obs[b].n + 1
                 ELSE pc[b] \in {"context_close", "browser_close", "aexit", "done"}
        /\ exc[b].at \in InteractionSteps =>
              /\ pc[b] \in {"aexit", "done"}
              /\ Len(results[b]) = Len(lookups[b]) - 1
              /\ Len(lookups[b]) = it[b]

\* the status extraction of the first of two ids failed and the second id is
\* being looked up
C5_Witness ==
    \E b \in Running :
        /\ Len(ids[b]) = 2
        /\ Len(results[b]) = 1 /\ Absent(results[b][1].status)
        /\ results[b][1].debt_counsellor.kind = "str"
        /\ pc[b] = "click"

(***************************************************************************)
(* C6: a search that shows no result row gives the Result of that id with  *)
(* status and counsellor None; nothing is raised and the batch goes on     *)
(* with the next identifier.                                               *)
(***************************************************************************)
C6_NoRowGivesEmptyResult ==
    \A b \in Running :
        obs[b].row = "absent" =>
            /\ exc[b].at \notin ExtractionSteps
            /\ pc[b] \in {"aexit", "done"} => LookupComplete(b)
            /\ pc[b] = "counsellor" => Absent(status[b])
            /\ LookupComplete(b) =>
                  /\ results[b][obs[b].n] =
                        [id_number |-> ids[b][obs[b].n], status |-> NoneV,
                         debt_counsellor |-> NoneV]
                  /\ obs[b].n < Len(ids[b]) => pc[b] = "fill"

\* the first search found nothing and the second id is up
C6_Witness ==
    \E b \in Running :
        /\ obs[b].row = "absent" /\ LookupComplete(b)
        /\ obs[b].n = 1 /\ Len(ids[b]) = 2
        /\ pc[b] = "fill"

(***************************************************************************)
(* C7: the two extractions fail independently: a status that was read      *)
(* stays in the Result when the counsellor extraction fails, and the other *)
(* way round; neither failure raises out of the lookup.                    *)
(***************************************************************************)
C7_ExtractionsIndependent ==
    \A b \in Running :
        LookupComplete(b) =>
            LET r == results[b][obs[b].n] IN
            /\ (obs[b].status = "str" /\ obs[b].counsellor = "raise") =>
                  r.status.kind = "str" /\ Absent(r.debt_counsellor)
            /\ (obs[b].status = "raise" /\ obs[b].counsellor = "str") =>
                  Absent(r.status) /\ r.debt_counsellor.kind = "str"
            /\ exc[b].at \notin ExtractionSteps

\* status read, counsellor extraction failed, the batch returned
C7_Witness ==
    \E b \in Running :
        /\ Returned(b) /\ LookupComplete(b)
        /\ obs[b].status = "str" /\ obs[b].counsellor = "raise"
        /\ results[b][obs[b].n].status = Str(<<"a">>)

(***************************************************************************)
(* C8: every status and counsellor of a Result is None or a non-empty      *)
(* string without surrounding whitespace.                                  *)
(***************************************************************************)
C8_FieldsAbsentOrTrimmedNonEmpty ==
    \A b \in Running :
        \A i \in 1..Len(results[b]) :
            /\ Absent(results[b][i].status) \/ Trimmed(results[b][i].status)
            /\ Absent(results[b][i].debt_counsellor)
                  \/ Trimmed(results[b][i].debt_counsellor)

(***************************************************************************)
(* C9: the lookups of a batch run one after another in input order: the    *)
(* ids typed into the search control are a prefix of ids, a lookup starts  *)
(* only when the one before has given its Result, a page has at most one   *)
(* lookup in progress, and a batch that returns has looked up every id     *)
(* exactly once.                                                           *)
(***************************************************************************)
C9_SequentialInOrder ==
    \A b \in Running :
        /\ Len(lookups[b]) <= Len(ids[b])
        /\ \A k \in 1..Len(lookups[b]) : lookups[b][k] = ids[b][k]
        /\ Len(lookups[b]) \in {Len(results[b]), Len(results[b]) + 1}
        /\ Len(lookups[b]) = Len(results[b]) + 1 <=>
              \/ pc[b] \in {"click", "wait", "status", "counsellor"}
              \/ exc[b].at \in InteractionSteps
        /\ Returned(b) => Len(lookups[b]) = Len(ids[b])
        /\ SessionOpen(b) =>
              Cardinality({c \in Running : page[c] = page[b] /\ pc[c] \in SearchPcs}) <= 1

\* two different ids, the first has its Result, the second is in progress
C9_Witness ==
    \E b \in Running :
        /\ ids[b] = <<Id2, Id1>>
        /\ lookups[b] = <<Id2, Id1>>
        /\ Len(results[b]) = 1
        /\ pc[b] = "status"

(***************************************************************************)
(* C10: concurrent batches each have their own browser, context and page:  *)
(* no page is called by two batches, no page holds the id of another       *)
(* batch, and the results of a batch carry only its own ids.               *)
(***************************************************************************)
C10_SessionsNotShared ==
    /\ \A b, c \in Running :
          b # c =>
              /\ browser[b] # 0 => browser[b] # browser[c]
              /\ context[b] # NoHandle => context[b] # context[c]
              /\ page[b] # NoHandle => page[b] # page[c]
    /\ \A h \in DOMAIN pages : Cardinality(pages[h].users) <= 1
    /\ \A b \in Running :
          /\ SessionOpen(b) =>
                \/ pages[page[b]].filter = NoneV
                \/ \E i \in 1..Len(ids[b]) : pages[page[b]].filter = Str(ids[b][i])
          /\ \A i \in 1..Len(results[b]) :
                \E j \in 1..Len(ids[b]) : results[b][i].id_number = ids[b][j]

\* two batches in the middle of a lookup at the same time, each on its page
C10_Witness ==
    \E b, c \in Running :
        /\ b # c
        /\ pc[b] = "counsellor" /\ pc[c] = "wait"
        /\ pages[page[b]].filter = Str(IdOf(b))
        /\ pages[page[c]].filter = Str(IdOf(c))

(***************************************************************************)
(* C11: every wait on the portal ends, so a check_ids call over a finite   *)
(* list always comes to its end, by returning or by raising, also when the *)
(* portal keeps polling and the network never goes idle or the expected    *)
(* cell never shows.                                                       *)
(***************************************************************************)
C11_Terminates == <>(\A b \in Running : pc[b] = "done")

\* a call that ended on a search whose page kept polling, after a first
\* lookup whose cells never showed
C11_Witness ==
    \E b \in Running :
        /\ pc[b] = "done"
        /\ exc[b].at = "wait"
        /\ pages[page[b]].polling
        /\ Len(results[b]) = 1 /\ Absent(results[b][1].status)

(***************************************************************************)
(* C12: when the lookup of an identifier has finished, on any branch, the  *)
(* page is back in its baseline state before the next lookup begins: the   *)
(* search control is cleared and no result of the finished lookup is left  *)
(* on the page.                                                            *)
(***************************************************************************)
C12_PageBackAtBaseline ==
    \A b \in Running :
        LookupComplete(b) =>
            /\ pages[page[b]].filter = NoneV
            /\ ~pages[page[b]].hasRow

(***************************************************************************)
(* C13: when a lookup raises out of the lookup step after results were     *)
(* collected, either a Result is recorded for that identifier, or the      *)
(* context and the browser are closed and the error that reaches the       *)
(* caller is an abort error carrying the results collected so far.         *)
(***************************************************************************)
C13_AbortRecordsOrClosesAndCarries ==
    \A b \in Running :
        (/\ pc[b] = "done"
         /\ exc[b].at \in InteractionSteps
         /\ ~LoginRejected(b)
         /\ results[b] # << >>) =>
            \/ Len(results[b]) = Len(lookups[b])
            \/ /\ mock[b].ctx_closes = 1 /\ mock[b].br_closes = 1
               /\ exc[b].type = "BatchAborted"

(***************************************************************************)
(* C14: check_ids([]) with both credentials set does no lookup and does    *)
(* not fail on the empty list: it can only fail where a Playwright call    *)
(* of the session or the login fails; when it returns, it returns [] and   *)
(* the context, the browser and the driver have been closed.               *)
(***************************************************************************)
C14_EmptyInputReturnsEmpty ==
    \A b \in Running :
        (ids[b] = << >> /\ ~CredentialMissing) =>
            /\ lookups[b] = << >>
            /\ results[b] = << >>
            /\ pc[b] \notin SearchPcs
            /\ exc[b].type \in {"none", "Error"}
            /\ exc[b].at \notin SearchPcs
            /\ Returned(b) =>
                  /\ mock[b].ctx_closes = 1 /\ mock[b].br_closes = 1
                  /\ mock[b].pw_stops = 1

\* the empty list went through a session and came back
C14_Witness ==
    \E b \in Running :
        /\ ids[b] = << >>
        /\ Returned(b)
        /\ SessionOpen(b) /\ pages[page[b]].authed

(***************************************************************************)
(* C18: _login runs once per batch and comes before every lookup, and the  *)
(* closes come after the last: a lookup is only ever in progress, or past, *)
(* on a page whose login was submitted by the one _login call, and no      *)
(* login or lookup step is taken once the context or the browser has been  *)
(* closed.                                                                 *)
(***************************************************************************)
LoginSteps == {"goto", "fill_username", "fill_password", "click_login", "wait_login"}

C18_LoginBracketsLookups ==
    \A b \in Running :
        /\ mock[b].logins <= 1
        /\ (pc[b] \in SearchPcs \/ lookups[b] # << >>) =>
              /\ mock[b].logins = 1
              /\ pages[page[b]].submitted
              /\ exc[b].at \notin LoginSteps
        /\ (pc[b] \in LoginSteps \cup SearchPcs) =>
              mock[b].ctx_closes = 0 /\ mock[b].br_closes = 0
        /\ (mock[b].ctx_closes > 0 \/ mock[b].br_closes > 0) =>
              /\ pc[b] \in {"browser_close", "aexit", "done"}
              /\ Len(lookups[b]) = Len(ids[b])
              /\ mock[b].ctx_closes = 1 /\ mock[b].br_closes <= 1

\* a batch of two lookups, logged in once, now closed
C18_Witness ==
    \E b \in Running :
        /\ Len(lookups[b]) = 2
        /\ mock[b].logins = 1
        /\ mock[b].ctx_closes = 1 /\ mock[b].br_closes = 1
        /\ Returned(b)

(***************************************************************************)
(* C19: results only grows at its end and follows the loop: every step     *)
(* leaves the entries already there as they are and adds at most one, and  *)
(* after it the list has one entry per lookup that went through, entry j   *)
(* carrying ids[j].                                                        *)
(***************************************************************************)
\* the latest lookup was started and has not given its Result
LookupOpen(b) ==
    \/ pc[b] \in {"click", "wait", "status", "counsellor"}
    \/ exc[b].at \in InteractionSteps

C19_ResultsAppendOnly ==
    [][\A b \in Running :
          /\ Len(results'[b]) \in {Len(results[b]), Len(results[b]) + 1}
          /\ SubSeq(results'[b], 1, Len(results[b])) = results[b]
          /\ Len(results'[b]) = Len(lookups'[b]) - (IF LookupOpen(b)' THEN 1 ELSE 0)
          /\ \A j \in 1..Len(results'[b]) : results'[b][j].id_number = ids[b][j]
      ]_vars

\* two Results of two different ids, the first one found, the second one not
C19_Witness ==
    \E b \in Running :
        /\ ids[b] = <<Id1, Id2>>
        /\ Len(results[b]) = 2
        /\ results[b][1].status.kind = "str"
        /\ Absent(results[b][2].status)
        /\ pc[b] = "context_close"

(***************************************************************************)
(* C15: a missing credential and a rejected login each reach the caller as *)
(* a failure kind of its own, different from each other and from the       *)
(* failure of a lookup, and the endpoints answer them with a status other  *)
(* than the one of a lookup failure.                                       *)
(***************************************************************************)
SingleEndpoints == {"check_id", "check_id_get"}

\* what the caller sees of a lookup that failed
LookupFailureType == "Error"

LookupFailureStatus == 500

C15_DistinctFailureKinds ==
    \A b \in Running :
        /\ (Raised(b) /\ CredentialMissing) => exc[b].type # LookupFailureType
        /\ (pc[b] = "done" /\ RejectedLoginReturned(b)) =>
              exc[b].type \notin {"none", "RuntimeError", LookupFailureType}
        /\ (Responded(b) /\ pc[b] = "done"
                /\ (CredentialMissing \/ RejectedLoginReturned(b))) =>
              response[b].status # LookupFailureStatus

(***************************************************************************)
(* C16: /check_ids/ skips the rows whose ID value is missing or empty:     *)
(* every id it passes to dhs_checker.check_ids is a non-empty string, the  *)
(* ids are passed in row order, and when none is left it answers 400 and   *)
(* check_ids is not called.                                                *)
(***************************************************************************)
\* a cell that holds an id: a str with something other than whitespace in it
HoldsId(cell) == cell.kind = "str" /\ \E i \in 1..Len(cell.text) : cell.text[i] # " "

\* the ids of the rows, in row order, without the whitespace around them
IdsOfRows(rows) ==
    LET cells == SelectSeq(rows, HoldsId)
    IN [i \in 1..Len(cells) |->
           LET t == cells[i].text
               first == CHOOSE k \in 1..Len(t) :
                           t[k] # " " /\ \A j \in 1..(k - 1) : t[j] = " "
               last == CHOOSE k \in 1..Len(t) :
                          t[k] # " " /\ \A j \in (k + 1)..Len(t) : t[j] = " "
           IN SubSeq(t, first, last)]

C16_CsvForwardsNonEmptyInOrder ==
    \A b \in Running :
        (/\ request[b].endpoint = "check_ids"
         /\ request[b].header = "id number"
         /\ \A i \in 1..Len(request[b].rows) : request[b].rows[i] # RaiseV
         /\ response[b].stage \in {"calling", "sent"}) =>
            IF IdsOfRows(request[b].rows) = << >>
            THEN /\ response[b].status = 400
                 /\ pc[b] = "idle"
            ELSE /\ ids[b] = IdsOfRows(request[b].rows)
                 /\ \A i \in 1..Len(ids[b]) : ids[b][i] # << >>

(***************************************************************************)
(* C17: /check_id/ and /check_id_get/ are check_ids on the one-element     *)
(* list of their id: a call that returns is answered with the only         *)
(* element of the list, which carries exactly that id, and a call that     *)
(* raises is answered with a 500.                                          *)
(***************************************************************************)
C17_SingleIsBatchOfOne ==
    \A b \in Running :
        (request[b].endpoint \in SingleEndpoints /\ response[b].stage # "received") =>
            /\ ids[b] = <<request[b].id_number>>
            /\ Responded(b) =>
                  /\ pc[b] = "done"
                  /\ exc[b].type = "none" =>
                        /\ response[b].status = 200
                        /\ Len(results[b]) = 1
                        /\ response[b].body = <<results[b][1]>>
                        /\ response[b].body[1].id_number = request[b].id_number
                  /\ exc[b].type # "none" => response[b].status = 500

\* an id with a leading blank, looked up and answered as it came
C17_Witness ==
    \E b \in Running :
        /\ request[b].endpoint = "check_id_get"
        /\ request[b].id_number = <<" ", "1">>
        /\ Responded(b)
        /\ response[b].status = 200
        /\ response[b].body[1].status = Str(<<"a">>)

(***************************************************************************)
(* C20: the "ID not found" 404 of /check_id/ and /check_id_get/ is never   *)
(* sent: check_ids on a one-element list raises, which gives a 500, or     *)
(* returns a list of length 1.                                             *)
(***************************************************************************)
C20_NotFoundNeverSent ==
    \A b \in Running :
        /\ response[b].status # 404
        /\ (request[b].endpoint \in SingleEndpoints /\ Returned(b)) =>
              Len(results[b]) = 1
        /\ (request[b].endpoint \in SingleEndpoints /\ Responded(b)) =>
              response[b].status \in {200, 500}

\* an id the portal has no row for is answered 200, with both fields None
C20_Witness ==
    \E b \in Running :
        /\ request[b].endpoint = "check_id"
        /\ Responded(b)
        /\ response[b].status = 200
        /\ Absent(response[b].body[1].status)
        /\ Absent(response[b].body[1].debt_counsellor)
        /\ obs[b].row = "absent"
====
